---- MODULE Spec2Model ----
(***************************************************************************)
(* FileManager of RTags (src/FileManager.cpp): the directory -> filenames  *)
(* map of one project, rebuilt by recursive scans and patched by the       *)
(* directory watcher's added/removed signals.                              *)
(*                                                                         *)
(* A path is a sequence of tokens: "/" is the separator, every other token *)
(* is one whole name.  Sets of names are sets of such sequences.           *)
(***************************************************************************)
EXTENDS Integers, Sequences, FiniteSets, TLC

\* Most ScanThreads that may be running or have a result queued at once.
MaxInFlight == 2
\* watcher events waiting to be handled
MaxEvents == 2
\* scans started in one behaviour whose order of start is followed
MaxScans == 2

-----------------------------------------------------------------------------
(* The fixture: a project root with a plain file, a subdirectory that may  *)
(* hold the ignore marker, and a version-control directory.                *)

EmptyPath == << >>
ProjectPath == <<"/", "r", "/">>
IgnoreMarker == <<"/", ".rtags-ignore">>

FileA == <<"/", "r", "/", "a.c">>
FileX == <<"/", "r", "/", "s", "/", "x.c">>
FileM == <<"/", "r", "/", "s", "/", ".rtags-ignore">>
FileG == <<"/", "r", "/", ".git", "/", "c">>
FileO == <<"/", "r", "/", "a.o">>
\* a relative name: it has no parent directory
FileRel == <<"a.c">>

DirS == <<"/", "r", "/", "s">>
DirG == <<"/", "r", "/", ".git">>
DirGH == <<"/", "r", "/", ".git", "/", "h">>

\* The trees the project is set up on, and the directories they all have.
Fixtures == {{FileA, FileX}, {FileA, FileX, FileG}, {FileA, FileX, FileM},
             {FileX, FileM, FileG}}
Directories == {<<"/", "r">>, DirS, DirG, DirGH}

\* Paths the watcher's signals are delivered with.
EventPaths == {EmptyPath, FileRel, FileA, FileX, FileM, FileG, FileO,
               DirS, DirGH, ProjectPath}

\* /l is a symbolic link to the project root.
LinkPath == <<"/", "l", "/">>
LinkA == <<"/", "l", "/", "a.c">>
Outside == <<"/", "q", "/", "a.c">>

\* Paths contains is asked about.
QueryPaths == {ProjectPath, FileA, FileX, FileG, LinkA, Outside, EmptyPath}

NoQuery == [path |-> EmptyPath, alive |-> FALSE, value |-> FALSE]

\* The exclude filters of the server options: object files are filtered.
DefaultFilters == << <<"a.o">> >>

VARIABLES
    files,          \* the files on disk
    store,          \* project->files(): directory -> set of file names
    watched,        \* mWatcher's watched paths
    threads,        \* number of ScanThreads started and not yet finished
    callQueue,      \* results posted to the main event loop by callLater
    projectAlive,   \* mProject.lock() yields the project
    fmAlive,        \* the FileManager itself is alive (weak.lock() in run)
    noWatch,        \* options & Server::NoFileManagerWatch
    tests,          \* !options().tests.isEmpty()
    excludeFilters, \* options().excludeFilters
    mMutex,         \* "free", or "held" by the handler that locked it
    err,            \* "none", or how the process died
    query,          \* the last call of contains and what it returned
    last,           \* what the last step was and the calls it made
    events,         \* changes the watcher has seen and not yet signalled
    order,          \* the scans by order of start: running, posted, applied
    walk,           \* where the scan thread is in ScanThread::paths
    pc              \* where each thread is with respect to mMutex

vars == <<files, store, watched, threads, callQueue, projectAlive, fmAlive,
          noWatch, tests, excludeFilters, mMutex, err, query, last, events,
          order, walk, pc>>

\* The state of the finer-grained specifications below.
aux == <<events, order, walk, pc>>

-----------------------------------------------------------------------------
(* Path *)

RECURSIVE SkipSlashes(_, _)
SkipSlashes(p, i) == IF i >= 1 /\ p[i] = "/" THEN SkipSlashes(p, i - 1) ELSE i

RECURSIVE SkipName(_, _)
SkipName(p, i) == IF i >= 1 /\ p[i] # "/" THEN SkipName(p, i - 1) ELSE i

\* Path::parentDir: everything up to and including the slash before the
\* last name; empty for the empty path, "/" and a name without a slash.
parentDir(p) ==
    IF p = EmptyPath \/ p = <<"/">> THEN EmptyPath
    ELSE LET i == SkipName(p, SkipSlashes(p, Len(p)))
         IN  IF i < 1 THEN EmptyPath ELSE SubSeq(p, 1, i)

RECURSIVE LastSlashBefore(_, _)
LastSlashBefore(p, i) ==
    IF i >= 1 /\ p[i] # "/" THEN LastSlashBefore(p, i - 1) ELSE i

\* Path::fileName: what follows the last slash that is not the final token.
fileName(p) ==
    IF Len(p) <= 1 THEN p
    ELSE SubSeq(p, LastSlashBefore(p, Len(p) - 1) + 1, Len(p))

\* String::contains
strContains(p, sub) ==
    \E i \in 0..(Len(p) - Len(sub)) : SubSeq(p, i + 1, i + Len(sub)) = sub

\* String::startsWith
strStartsWith(p, pre) ==
    Len(pre) <= Len(p) /\ SubSeq(p, 1, Len(pre)) = pre

RECURSIVE Collapse(_)
Collapse(p) ==
    IF Len(p) <= 1 THEN p
    ELSE LET q == Collapse(SubSeq(p, 1, Len(p) - 1))
         IN  IF p[Len(p)] = "/" /\ q[Len(q)] = "/" THEN q
             ELSE q \o <<p[Len(p)]>>

\* What the filesystem makes of a path: repeated and trailing slashes drop.
Normalize(p) ==
    LET c == Collapse(p)
    IN  IF Len(c) > 1 /\ c[Len(c)] = "/" THEN SubSeq(c, 1, Len(c) - 1) ELSE c

\* Path::isDir
isDir(p) == Normalize(p) \in Directories

\* Path::exists
exists(fs, p) == Normalize(p) \in fs \/ isDir(p)

-----------------------------------------------------------------------------
(* Filter and ScanThread::paths *)

\* Filter::filter: Filtered when an exclude filter matches, Directory for a
\* directory, Source or File for anything else.
Filter(path, filters) ==
    IF \E i \in 1..Len(filters) : strContains(path, filters[i]) THEN "Filtered"
    ELSE IF isDir(path) THEN "Directory"
    ELSE IF path[Len(path)] \in {"a.c", "x.c"} THEN "Source"
    ELSE "File"

\* Path::visit hands the callback every entry of a directory, directories
\* with a trailing slash.
Entries(fs, dir) ==
    {f \in fs : parentDir(f) = dir}
        \cup {d \o <<"/">> : d \in {x \in Directories : parentDir(x) = dir}}

RECURSIVE paths(_, _, _)
\* ScanThread::paths: the files under path, not descending into filtered
\* directories nor into directories that hold the ignore marker.
paths(fs, path, filters) ==
    UNION { LET result == Filter(e, filters)
            IN  CASE result = "Filtered" -> {}
                  [] result = "Directory" ->
                        IF exists(fs, e \o IgnoreMarker) THEN {}
                        ELSE paths(fs, e, filters)
                  [] OTHER -> {e}
          : e \in Entries(fs, path) }

-----------------------------------------------------------------------------
(* FileManager *)

EmptyMap == [d \in {} |-> {}]

\* (*map)[key] followed by insert(name): a missing entry is created
MapInsert(map, key, name) ==
    [d \in DOMAIN map \cup {key} |->
        (IF d \in DOMAIN map THEN map[d] ELSE {})
            \cup (IF d = key THEN {name} ELSE {})]

MapRemove(map, key) == [d \in DOMAIN map \ {key} |-> map[d]]

\* a watch that refuses no version-control directory
watchAdmits_AnyDirectory(path, disabled) == ~disabled

\* FileManager::watch: the watcher is asked only when watching is enabled
\* and the path is not inside a version-control directory.
watchAdmits(path, disabled) ==
    /\ ~disabled
    /\ ~strContains(path, <<"/", ".git", "/">>)
    /\ ~strContains(path, <<"/", ".svn", "/">>)
    /\ ~strContains(path, <<"/", ".cvs", "/">>)

watch(w, path, disabled) ==
    IF watchAdmits(path, disabled) THEN w \cup {path} ELSE w

RECURSIVE FoldPaths(_, _, _, _)
\* the loop of onRecurseJobFinished over the scanned paths
FoldPaths(ps, map, w, disabled) ==
    IF ps = {} THEN [store |-> map, watched |-> w]
    ELSE LET it == CHOOSE p \in ps : TRUE
             parent == parentDir(it)
         IN  IF parent = EmptyPath
             THEN FoldPaths(ps \ {it}, map, w, disabled)
             ELSE FoldPaths(ps \ {it}, MapInsert(map, parent, fileName(it)),
                            watch(w, parent, disabled), disabled)

\* onRecurseJobFinished that clears neither the map nor the watcher
RecurseJobFinished_NoClear(ps, disabled) ==
    FoldPaths(ps, store, watched, disabled)

\* onRecurseJobFinished that refills the map only when it found it empty
RecurseJobFinished_ClearOrFill(ps, disabled) ==
    IF DOMAIN store # {} THEN [store |-> EmptyMap, watched |-> {}]
    ELSE FoldPaths(ps, EmptyMap, {}, disabled)

\* FileManager::onRecurseJobFinished past its assertions: the map and the
\* watcher are cleared and refilled from the scanned paths.
RecurseJobFinished(ps, disabled) == FoldPaths(ps, EmptyMap, {}, disabled)

\* What a handler did: the map and the watches it leaves, how many times it
\* called reload(Asynchronous) (always its last call), the paths it passed
\* to mWatcher.watch and to mWatcher.unwatch, the check of the project it
\* failed, if any, and the branch it took.
Ret(map, w, n, wr, u, f, branch) ==
    [store |-> map, watched |-> w, reloads |-> n, watchReq |-> wr,
     unwatched |-> u, fail |-> f, branch |-> branch]

\* the calls of mWatcher.watch that FileManager::watch(path) makes
watchCalls(path, disabled) ==
    IF watchAdmits(path, disabled) THEN <<path>> ELSE << >>

\* onFileAdded, the path empty or filtered: nothing is done
addedIgnored(map, w) == Ret(map, w, 0, << >>, << >>, "none", "ignored")

\* addedFile without the check of the parent
addedFile_NoParentCheck(path, map, w, disabled, alive) ==
    LET parent == parentDir(path)
    IN  IF ~alive THEN Ret(map, w, 0, << >>, << >>, "assert", "file")
        ELSE Ret(MapInsert(map, parent, fileName(path)),
                 watch(w, parent, disabled), 0, watchCalls(parent, disabled),
                 << >>, "none", IF parent # EmptyPath THEN "file" ELSE "noparent")

\* addedFile that does not watch the parent
addedFile_ForgetsWatch(path, map, w, disabled, alive) ==
    LET parent == parentDir(path)
    IN  IF ~alive THEN Ret(map, w, 0, << >>, << >>, "assert", "file")
        ELSE IF parent # EmptyPath
        THEN Ret(MapInsert(map, parent, fileName(path)), w, 0, << >>, << >>,
                 "none", "file")
        ELSE Ret(map, w, 1, << >>, << >>, "none", "noparent")

\* addedFile that only logs a missing parent
addedFile_NoFallback(path, map, w, disabled, alive) ==
    LET parent == parentDir(path)
    IN  IF ~alive THEN Ret(map, w, 0, << >>, << >>, "assert", "file")
        ELSE IF parent # EmptyPath
        THEN Ret(MapInsert(map, parent, fileName(path)),
                 watch(w, parent, disabled), 0, watchCalls(parent, disabled),
                 << >>, "none", "file")
        ELSE Ret(map, w, 0, << >>, << >>, "none", "noparent")

\* addedDirectory that reloads without watching the directory
addedDirectory_NoWatch(path, map, w, disabled) ==
    Ret(map, w, 1, << >>, << >>, "none", "directory")

\* onFileAdded, the path a directory: it is watched and a reload follows
addedDirectory(path, map, w, disabled) ==
    Ret(map, watch(w, path, disabled), 1, watchCalls(path, disabled), << >>,
        "none", "directory")

\* onFileAdded, the path a file or a source: it is put in its parent's set
\* and the parent is watched; without a parent a reload follows
addedFile(path, map, w, disabled, alive) ==
    LET parent == parentDir(path)
    IN  IF ~alive THEN Ret(map, w, 0, << >>, << >>, "assert", "file")
        ELSE IF parent # EmptyPath
        THEN Ret(MapInsert(map, parent, fileName(path)),
                 watch(w, parent, disabled), 0, watchCalls(parent, disabled),
                 << >>, "none", "file")
        ELSE Ret(map, w, 1, << >>, << >>, "none", "noparent")

\* FileManager::onFileAdded up to its call of reload
onFileAdded(path, map, w, filters, disabled, alive) ==
    IF path = EmptyPath THEN addedIgnored(map, w)
    ELSE LET res == Filter(path, filters)
         IN  CASE res = "Directory" -> addedDirectory(path, map, w, disabled)
               [] res = "Filtered" -> addedIgnored(map, w)
               [] OTHER -> addedFile(path, map, w, disabled, alive)

\* onFileRemoved that drops an emptied directory without unwatching it
onFileRemoved_NoUnwatch(path, map, w, alive) ==
    IF ~alive THEN Ret(map, w, 0, << >>, << >>, "null", "untracked")
    ELSE IF path \in DOMAIN map
    THEN Ret(map, w, 1, << >>, << >>, "none", "key")
    ELSE LET parent == parentDir(path)
         IN  IF parent \in DOMAIN map
             THEN LET dir == map[parent] \ {fileName(path)}
                  IN  IF dir = {}
                      THEN Ret(MapRemove(map, parent), w, 0, << >>, << >>,
                               "none", "emptied")
                      ELSE Ret([map EXCEPT ![parent] = dir], w, 0, << >>,
                               << >>, "none", "member")
             ELSE Ret(map, w, 0, << >>, << >>, "none", "untracked")

\* onFileRemoved that drops the directory a removed path names
onFileRemoved_DropsKey(path, map, w, alive) ==
    IF ~alive THEN Ret(map, w, 0, << >>, << >>, "null", "untracked")
    ELSE IF path \in DOMAIN map
    THEN Ret(MapRemove(map, path), w \ {path}, 1, << >>, <<path>>, "none",
             "key")
    ELSE LET parent == parentDir(path)
         IN  IF parent \in DOMAIN map
             THEN LET dir == map[parent] \ {fileName(path)}
                  IN  IF dir = {}
                      THEN Ret(MapRemove(map, parent), w \ {parent}, 0, << >>,
                               <<parent>>, "none", "emptied")
                      ELSE Ret([map EXCEPT ![parent] = dir], w, 0, << >>,
                               << >>, "none", "member")
             ELSE Ret(map, w, 0, << >>, << >>, "none", "untracked")

\* onFileRemoved that rescans when the path is not tracked
onFileRemoved_UntrackedReloads(path, map, w, alive) ==
    IF ~alive THEN Ret(map, w, 0, << >>, << >>, "null", "untracked")
    ELSE IF path \in DOMAIN map
    THEN Ret(map, w, 1, << >>, << >>, "none", "key")
    ELSE LET parent == parentDir(path)
         IN  IF parent \in DOMAIN map
             THEN LET dir == map[parent] \ {fileName(path)}
                  IN  IF dir = {}
                      THEN Ret(MapRemove(map, parent), w \ {parent}, 0, << >>,
                               <<parent>>, "none", "emptied")
                      ELSE Ret([map EXCEPT ![parent] = dir], w, 0, << >>,
                               << >>, "none", "member")
             ELSE Ret(map, w, 1, << >>, << >>, "none", "untracked")

\* onFileRemoved that keeps the key of a directory it has emptied
onFileRemoved_KeepsEmptied(path, map, w, alive) ==
    IF ~alive THEN Ret(map, w, 0, << >>, << >>, "null", "untracked")
    ELSE IF path \in DOMAIN map
    THEN Ret(map, w, 1, << >>, << >>, "none", "key")
    ELSE LET parent == parentDir(path)
         IN  IF parent \in DOMAIN map
             THEN LET dir == map[parent] \ {fileName(path)}
                  IN  IF dir = {}
                      THEN Ret([map EXCEPT ![parent] = dir], w \ {parent}, 0,
                               << >>, <<parent>>, "none", "emptied")
                      ELSE Ret([map EXCEPT ![parent] = dir], w, 0, << >>,
                               << >>, "none", "member")
             ELSE Ret(map, w, 0, << >>, << >>, "none", "untracked")

\* FileManager::onFileRemoved up to its call of reload
onFileRemoved(path, map, w, alive) ==
    IF ~alive THEN Ret(map, w, 0, << >>, << >>, "null", "untracked")
    ELSE IF path \in DOMAIN map
    THEN Ret(map, w, 1, << >>, << >>, "none", "key")
    ELSE LET parent == parentDir(path)
         IN  IF parent \in DOMAIN map
             THEN LET dir == map[parent] \ {fileName(path)}
                  IN  IF dir = {}
                      THEN Ret(MapRemove(map, parent), w \ {parent}, 0, << >>,
                               <<parent>>, "none", "emptied")
                      ELSE Ret([map EXCEPT ![parent] = dir], w, 0, << >>,
                               << >>, "none", "member")
             ELSE Ret(map, w, 0, << >>, << >>, "none", "untracked")

\* startsWith of FileManager.cpp, past its assertion
startsWith(left, right) == right # EmptyPath /\ strStartsWith(left, right)

\* Path::resolved: the path with its symbolic links followed
resolved(path) ==
    IF strStartsWith(path, LinkPath)
    THEN ProjectPath \o SubSeq(path, Len(LinkPath) + 1, Len(path))
    ELSE path

\* FileManager::contains: its value, or the assertion of startsWith an
\* empty path fails in the debug build.
containsPath(path, root, alive) ==
    IF ~alive THEN [value |-> FALSE, fail |-> "none"]
    ELSE IF path = EmptyPath THEN [value |-> FALSE, fail |-> "assert"]
    ELSE IF startsWith(path, root) THEN [value |-> TRUE, fail |-> "none"]
    ELSE LET p == resolved(path)
         IN  IF p # path /\ startsWith(path, root)
             THEN [value |-> TRUE, fail |-> "none"]
             ELSE [value |-> FALSE, fail |-> "none"]

-----------------------------------------------------------------------------
(* The state machine *)

\* A failed assert(project) aborts the debug build; the release build goes
\* on to dereference the null pointer.  A null dereference is undefined.
AssertOutcomes == {"assert", "segv", "corrupt"}
NullOutcomes == {"segv", "corrupt"}

\* The record of a step: the operation, the branch it took, its calls of
\* reload(Asynchronous), the paths it passed to mWatcher.watch and to
\* mWatcher.unwatch, and whether it applied a scan right after a step that
\* applied one.
Step(op, branch, n, wr, u) ==
    [op |-> op, branch |-> branch, reloads |-> n, watchReq |-> wr,
     unwatched |-> u,
     again |-> op \in {"reload", "finished"}
                 /\ last.op \in {"reload", "finished"}]

NoStep(op) == Step(op, "none", 0, << >>, << >>)

Set(map, w, th, q, mu, e, l) ==
    /\ store' = map
    /\ watched' = w
    /\ threads' = th
    /\ callQueue' = q
    /\ mMutex' = mu
    /\ err' = e
    /\ last' = l
    /\ UNCHANGED <<files, projectAlive, fmAlive, noWatch, tests,
                   excludeFilters, query>>

\* No scan has been started, no scan thread is walking, no thread is at
\* the mutex.
NoScans == [next |-> 1, running |-> {}, walked |-> << >>, posted |-> << >>,
            applied |-> 0]
NoWalk == [on |-> FALSE, todo |-> {}, found |-> {}, begun |-> << >>]
Threads == {"home", "watcher", "client"}
AllIdle == [t \in Threads |-> "idle"]

\* FileManager() and init() up to its call of reload
Init ==
    /\ files \in Fixtures
    /\ store = EmptyMap
    /\ watched = {}
    /\ threads = 0
    /\ callQueue = << >>
    /\ projectAlive = TRUE
    /\ fmAlive = TRUE
    /\ noWatch \in BOOLEAN
    /\ tests \in BOOLEAN
    /\ excludeFilters = DefaultFilters
    /\ mMutex = "free"
    /\ err = "none"
    /\ query = NoQuery
    /\ last = [op |-> "init", branch |-> "none", reloads |-> 0,
               watchReq |-> << >>, unwatched |-> << >>, again |-> FALSE]
    /\ events = << >>
    /\ order = NoScans
    /\ walk = NoWalk
    /\ pc = AllIdle

Live == err = "none" /\ fmAlive /\ mMutex = "free"

\* FileManager::reload called while the caller holds mMutex, after the
\* handler left the map and the watches as map and w.
ReloadLocked(map, w, l) ==
    IF ~projectAlive
    THEN \E e \in AssertOutcomes : Set(map, w, threads, callQueue, "free", e, l)
    ELSE IF tests
    THEN \* Synchronous: onRecurseJobFinished locks the mutex its caller
         \* holds, which is undefined: the thread hangs, or the lock is
         \* taken again and the scan is applied.
         \/ Set(map, w, threads, callQueue, "held", "none", l)
         \/ LET r == RecurseJobFinished(paths(files, ProjectPath, excludeFilters),
                                        noWatch)
            IN  Set(r.store, r.watched, threads, callQueue, "free", "none", l)
    ELSE /\ threads + Len(callQueue) < MaxInFlight
         /\ Set(map, w, threads + 1, callQueue, "free", "none", l)

\* What a handler's result makes of the state.
Handle(op, path, r) ==
    LET l == Step(op, r.branch, r.reloads, r.watchReq, r.unwatched)
    IN  CASE r.fail = "assert" ->
                \E e \in AssertOutcomes :
                    Set(store, watched, threads, callQueue, "free", e, l)
          [] r.fail = "null" ->
                \E e \in NullOutcomes :
                    Set(store, watched, threads, callQueue, "free", e, l)
          [] r.reloads > 0 -> ReloadLocked(r.store, r.watched, l)
          [] OTHER ->
                Set(r.store, r.watched, threads, callQueue, "free", "none", l)

\* the watcher's added() signal
FileAdded(path) ==
    /\ Live
    /\ Handle("added", path,
              onFileAdded(path, store, watched, excludeFilters, noWatch,
                          projectAlive))
    /\ UNCHANGED aux

\* the watcher's removed() signal
FileRemoved(path) ==
    /\ Live
    /\ Handle("removed", path, onFileRemoved(path, store, watched, projectAlive))
    /\ UNCHANGED aux

\* FileManager::reload called by the project (init, or a later reload)
Reload(mode) ==
    /\ Live
    /\ projectAlive
    /\ LET l == NoStep("reload")
       IN  IF mode = "Asynchronous" /\ ~tests
           THEN /\ threads + Len(callQueue) < MaxInFlight
                /\ Set(store, watched, threads + 1, callQueue, "free", "none",
                       NoStep("start"))
           ELSE LET r == RecurseJobFinished(
                            paths(files, ProjectPath, excludeFilters), noWatch)
                IN  Set(r.store, r.watched, threads, callQueue, "free", "none", l)
    /\ UNCHANGED aux

\* ScanThread::run: the scan, and callLater with its result
ScanRun ==
    /\ err = "none"
    /\ threads > 0
    /\ Set(store, watched, threads - 1,
           Append(callQueue, paths(files, ProjectPath, excludeFilters)),
           mMutex, "none", NoStep("scan"))
    /\ UNCHANGED aux

\* The main event loop runs the posted call: onRecurseJobFinished when the
\* FileManager is still there.
Deliver ==
    /\ err = "none"
    /\ callQueue # << >>
    /\ LET l == NoStep("finished")
           r == RecurseJobFinished(Head(callQueue), noWatch)
       IN  IF ~fmAlive
           THEN Set(store, watched, threads, Tail(callQueue), mMutex, "none",
                    NoStep("dropped"))
           ELSE /\ mMutex = "free"
                /\ IF projectAlive
                   THEN Set(r.store, r.watched, threads, Tail(callQueue), "free",
                            "none", l)
                   ELSE \E e \in AssertOutcomes :
                           Set(store, watched, threads, Tail(callQueue), "free",
                               e, l)
    /\ UNCHANGED aux

\* The last shared_ptr to the project goes: mProject expires.
Teardown ==
    /\ err = "none"
    /\ projectAlive
    /\ projectAlive' = FALSE
    /\ last' = NoStep("teardown")
    /\ UNCHANGED <<files, store, watched, threads, callQueue, fmAlive, noWatch,
                   tests, excludeFilters, mMutex, err, query>>
    /\ UNCHANGED aux

\* The project's members are destroyed, the FileManager with them.
Destroy ==
    /\ err = "none"
    /\ ~projectAlive
    /\ fmAlive
    /\ mMutex = "free"
    /\ fmAlive' = FALSE
    /\ last' = NoStep("destroyed")
    /\ UNCHANGED <<files, store, watched, threads, callQueue, projectAlive,
                   noWatch, tests, excludeFilters, mMutex, err, query>>
    /\ UNCHANGED aux

\* FileManager::contains called by a client
Contains(path) ==
    /\ Live
    /\ LET r == containsPath(path, ProjectPath, projectAlive)
       IN  \/ /\ r.fail = "none"
              /\ query' = [path |-> path, alive |-> projectAlive,
                           value |-> r.value]
              /\ err' = "none"
           \/ /\ r.fail = "assert"
              /\ query' = query
              /\ err' = "assert"
    /\ last' = NoStep("contains")
    /\ UNCHANGED <<files, store, watched, threads, callQueue, projectAlive,
                   fmAlive, noWatch, tests, excludeFilters, mMutex>>
    /\ UNCHANGED aux

Next ==
    \/ \E path \in EventPaths : FileAdded(path)
    \/ \E path \in EventPaths : FileRemoved(path)
    \/ \E mode \in {"Synchronous", "Asynchronous"} : Reload(mode)
    \/ ScanRun
    \/ Deliver
    \/ Teardown
    \/ Destroy

Spec == Init /\ [][Next]_vars

\* The membership query on its own: clients asking, the project going away.
NextContains ==
    \/ \E path \in QueryPaths : Contains(path)
    \/ Teardown

SpecContains == Init /\ [][NextContains]_vars

-----------------------------------------------------------------------------
(* The file system changing under the watcher, with overlapping scans *)

\* The files that come and go.
SyncFiles == {FileA, FileX}

\* The watcher reports a change of a path under a directory it watches.
Reported(w, path) ==
    \E d \in w : strStartsWith(path, Normalize(d) \o <<"/">>)

\* The state after init(project, Synchronous) has returned: the tree has
\* been scanned once and the scan applied.
InitSync ==
    /\ files \in SUBSET SyncFiles
    /\ LET r == RecurseJobFinished(paths(files, ProjectPath, DefaultFilters),
                                   FALSE)
       IN  store = r.store /\ watched = r.watched
    /\ threads = 0
    /\ callQueue = << >>
    /\ projectAlive = TRUE
    /\ fmAlive = TRUE
    /\ noWatch = FALSE
    /\ tests = FALSE
    /\ excludeFilters = DefaultFilters
    /\ mMutex = "free"
    /\ err = "none"
    /\ query = NoQuery
    /\ last = [op |-> "reload", branch |-> "none", reloads |-> 0,
               watchReq |-> << >>, unwatched |-> << >>, again |-> FALSE]
    /\ events = << >>
    /\ order = NoScans
    /\ walk = NoWalk
    /\ pc = AllIdle

\* A change of the tree, seen by the watcher or not.
FsChange(fs, kind, path) ==
    /\ err = "none"
    /\ files' = fs
    /\ IF Reported(watched, path)
       THEN /\ Len(events) < MaxEvents
            /\ events' = Append(events, [kind |-> kind, path |-> path])
       ELSE events' = events
    /\ UNCHANGED <<store, watched, threads, callQueue, projectAlive, fmAlive,
                   noWatch, tests, excludeFilters, mMutex, err, query, last,
                   order, walk, pc>>

\* a file is created
FsCreate(path) ==
    /\ path \notin files
    /\ FsChange(files \cup {path}, "added", path)

\* a file is deleted
FsDelete(path) ==
    /\ path \in files
    /\ FsChange(files \ {path}, "removed", path)

\* The watcher signals its oldest change: onFileAdded or onFileRemoved.
WatcherEvent ==
    /\ Live
    /\ events # << >>
    /\ LET e == Head(events)
       IN  Handle(e.kind, e.path,
                  IF e.kind = "added"
                  THEN onFileAdded(e.path, store, watched, excludeFilters,
                                   noWatch, projectAlive)
                  ELSE onFileRemoved(e.path, store, watched, projectAlive))
    /\ events' = Tail(events)
    /\ UNCHANGED <<order, walk, pc>>

\* reload(Asynchronous) called by the project: startScanThread
SyncStart ==
    /\ Live
    /\ projectAlive
    /\ ~tests
    /\ order.next <= MaxScans
    /\ threads + Len(callQueue) < MaxInFlight
    /\ Set(store, watched, threads + 1, callQueue, "free", "none",
           NoStep("start"))
    /\ order' = [order EXCEPT !.next = @ + 1, !.running = @ \cup {order.next}]
    /\ UNCHANGED <<events, walk, pc>>

\* ScanThread::run of the scan started as number id: the call of paths
SyncWalk(id) ==
    /\ err = "none"
    /\ id \in order.running
    /\ \A i \in 1..Len(order.walked) : order.walked[i].id # id
    /\ order' = [order EXCEPT !.walked =
                    Append(@, [id |-> id,
                               p |-> paths(files, ProjectPath, excludeFilters)])]
    /\ UNCHANGED <<files, store, watched, threads, callQueue, projectAlive,
                   fmAlive, noWatch, tests, excludeFilters, mMutex, err, query,
                   last, events, walk, pc>>

\* ScanThread::run of a scan that has its paths: callLater, and the thread
\* ends
SyncPost(i) ==
    /\ err = "none"
    /\ i \in 1..Len(order.walked)
    /\ Set(store, watched, threads - 1, Append(callQueue, order.walked[i].p),
           mMutex, "none", NoStep("scan"))
    /\ order' = [order EXCEPT
                    !.running = @ \ {order.walked[i].id},
                    !.walked = SubSeq(@, 1, i - 1) \o SubSeq(@, i + 1, Len(@)),
                    !.posted = Append(@, order.walked[i].id)]
    /\ UNCHANGED <<events, walk, pc>>

\* The main event loop runs the oldest posted call: onRecurseJobFinished.
SyncDeliver ==
    /\ Live
    /\ projectAlive
    /\ callQueue # << >>
    /\ LET r == RecurseJobFinished(Head(callQueue), noWatch)
       IN  Set(r.store, r.watched, threads, Tail(callQueue), "free", "none",
               NoStep("finished"))
    /\ order' = [order EXCEPT !.posted = Tail(@), !.applied = Head(order.posted)]
    /\ UNCHANGED <<events, walk, pc>>

NextSync ==
    \/ \E path \in SyncFiles : FsCreate(path)
    \/ \E path \in SyncFiles : FsDelete(path)
    \/ WatcherEvent
    \/ SyncStart
    \/ \E id \in 1..MaxScans : SyncWalk(id)
    \/ \E i \in 1..MaxInFlight : SyncPost(i)
    \/ SyncDeliver

SpecSync == InitSync /\ [][NextSync]_vars

-----------------------------------------------------------------------------
(* The exclude filters changing while a scan thread walks the tree *)

\* The values options().excludeFilters takes.
FilterConfigs == {DefaultFilters, DefaultFilters \o << <<"s">> >>}

\* Everything the visit of a tree can come across.
TreeEntries ==
    UNION Fixtures \cup {d \o <<"/">> : d \in Directories}

InitFilters == Init /\ ~tests /\ ~noWatch

\* ScanThread::run begins: paths starts its visit at the project's path.
\* mFilters refers to the options' list; begun records what the list held.
WalkBegin ==
    /\ err = "none"
    /\ threads > 0
    /\ ~walk.on
    /\ walk' = [on |-> TRUE, todo |-> Entries(files, ProjectPath),
                found |-> {}, begun |-> excludeFilters]
    /\ UNCHANGED <<files, store, watched, threads, callQueue, projectAlive,
                   fmAlive, noWatch, tests, excludeFilters, mMutex, err, query,
                   last, events, order, pc>>

\* The visitor of ScanThread::paths is called with one entry: it reads the
\* list the reference u->filters names, as the list is now.
WalkVisit(e) ==
    /\ err = "none"
    /\ walk.on
    /\ e \in walk.todo
    /\ LET result == Filter(e, excludeFilters)
           rest == walk.todo \ {e}
       IN  walk' =
             CASE result = "Filtered" -> [walk EXCEPT !.todo = rest]
               [] result = "Directory" ->
                     IF exists(files, e \o IgnoreMarker)
                     THEN [walk EXCEPT !.todo = rest]
                     ELSE [walk EXCEPT !.todo = rest \cup Entries(files, e)]
               [] OTHER -> [walk EXCEPT !.todo = rest, !.found = @ \cup {e}]
    /\ UNCHANGED <<files, store, watched, threads, callQueue, projectAlive,
                   fmAlive, noWatch, tests, excludeFilters, mMutex, err, query,
                   last, events, order, pc>>

\* paths has returned: callLater with the paths found, and the thread ends
WalkPost ==
    /\ err = "none"
    /\ walk.on
    /\ walk.todo = {}
    /\ Set(store, watched, threads - 1, Append(callQueue, walk.found), mMutex,
           "none", NoStep("scan"))
    /\ walk' = NoWalk
    /\ UNCHANGED <<events, order, pc>>

\* The server's options get another list of exclude filters. Writing the
\* list while a scan thread reads it is a data race: the thread reads the
\* old list or the new one, or the process dies.
SetFilters(f) ==
    /\ err = "none"
    /\ f # excludeFilters
    /\ excludeFilters' = f
    /\ \/ err' = "none"
       \/ walk.on /\ err' = "segv"
    /\ UNCHANGED <<files, store, watched, threads, callQueue, projectAlive,
                   fmAlive, noWatch, tests, mMutex, query, last, events, order,
                   walk, pc>>

NextFilters ==
    \/ Reload("Asynchronous")
    \/ WalkBegin
    \/ \E e \in TreeEntries : WalkVisit(e)
    \/ WalkPost
    \/ \E f \in FilterConfigs : SetFilters(f)
    \/ Deliver

SpecFilters == InitFilters /\ [][NextFilters]_vars

-----------------------------------------------------------------------------
(* The handlers with their critical sections in two steps: lock, then body *)

InitLock == Init /\ ~noWatch /\ files = {FileA, FileX, FileG}

\* std::lock_guard<std::mutex> lock(mMutex) at the head of
\* onRecurseJobFinished (home, the main thread), of onFileAdded and
\* onFileRemoved (watcher) and of contains (client): the thread waits for
\* the mutex and enters.
LockAcquire(t) ==
    /\ err = "none"
    /\ fmAlive
    /\ pc[t] = "idle"
    /\ mMutex = "free"
    /\ mMutex' = "held"
    /\ pc' = [pc EXCEPT ![t] = "in"]
    /\ UNCHANGED <<files, store, watched, threads, callQueue, projectAlive,
                   fmAlive, noWatch, tests, excludeFilters, err, query, last,
                   events, order, walk>>

\* onRecurseJobFinished past its lock, for the oldest posted scan result
\* or, none being posted, for the scan of a reload(Synchronous) of the
\* project; the lock_guard releases the mutex.
RecurseJobBody ==
    /\ pc["home"] = "in"
    /\ LET posted == callQueue # << >>
           ps == IF posted THEN Head(callQueue)
                 ELSE paths(files, ProjectPath, excludeFilters)
           r == RecurseJobFinished(ps, noWatch)
       IN  Set(r.store, r.watched, threads,
               IF posted THEN Tail(callQueue) ELSE callQueue, "free", "none",
               NoStep(IF posted THEN "finished" ELSE "reload"))
    /\ pc' = [pc EXCEPT !["home"] = "idle"]
    /\ UNCHANGED <<events, order, walk>>

\* onFileAdded or onFileRemoved past its lock. In test mode a reload it
\* calls runs onRecurseJobFinished at once, which locks the mutex this
\* thread holds: the thread hangs there, or it is let in.
WatcherBody(op, path) ==
    /\ pc["watcher"] = "in"
    /\ LET r == IF op = "added"
                THEN onFileAdded(path, store, watched, excludeFilters, noWatch,
                                 projectAlive)
                ELSE onFileRemoved(path, store, watched, projectAlive)
           l == Step(op, r.branch, r.reloads, r.watchReq, r.unwatched)
       IN  IF r.fail = "none" /\ r.reloads > 0 /\ tests
           THEN /\ Set(r.store, r.watched, threads, callQueue, "held", "none", l)
                /\ \E to \in {"hung", "nested"} :
                      pc' = [pc EXCEPT !["watcher"] = to]
           ELSE /\ Handle(op, path, r)
                /\ pc' = [pc EXCEPT !["watcher"] = "idle"]
    /\ UNCHANGED <<events, order, walk>>

\* onRecurseJobFinished run by reload inside the handler that holds the
\* mutex; its lock_guard releases the mutex and the handler returns.
NestedBody ==
    /\ pc["watcher"] = "nested"
    /\ LET r == RecurseJobFinished(paths(files, ProjectPath, excludeFilters),
                                   noWatch)
       IN  Set(r.store, r.watched, threads, callQueue, "free", "none", last)
    /\ pc' = [pc EXCEPT !["watcher"] = "idle"]
    /\ UNCHANGED <<events, order, walk>>

\* contains past its lock
ContainsBody(path) ==
    /\ pc["client"] = "in"
    /\ LET r == containsPath(path, ProjectPath, projectAlive)
       IN  \/ /\ r.fail = "none"
              /\ query' = [path |-> path, alive |-> projectAlive,
                           value |-> r.value]
              /\ err' = "none"
           \/ /\ r.fail = "assert"
              /\ query' = query
              /\ err' = "assert"
    /\ mMutex' = "free"
    /\ pc' = [pc EXCEPT !["client"] = "idle"]
    /\ UNCHANGED <<files, store, watched, threads, callQueue, projectAlive,
                   fmAlive, noWatch, tests, excludeFilters, last, events, order,
                   walk>>

NextLock ==
    \/ \E t \in Threads : LockAcquire(t)
    \/ RecurseJobBody
    \/ \E op \in {"added", "removed"}, path \in EventPaths : WatcherBody(op, path)
    \/ NestedBody
    \/ \E path \in QueryPaths : ContainsBody(path)
    \/ Reload("Asynchronous")
    \/ ScanRun

SpecLock == InitLock /\ [][NextLock]_vars

-----------------------------------------------------------------------------
(* Properties *)

\* The steps that apply a scan to the map of a live project.
DeliverApplied == Deliver /\ fmAlive /\ projectAlive
ReloadApplied == \E mode \in {"Synchronous", "Asynchronous"} :
                    Reload(mode) /\ (mode = "Synchronous" \/ tests)

\* The files of a scan grouped by their parent directory.
GroupByParent(R) ==
    [d \in {parentDir(p) : p \in R} \ {EmptyPath} |->
        {fileName(p) : p \in {q \in R : parentDir(q) = d}}]

\* An add event for a plain file or a source, and one for a directory.
AddsFile(p) ==
    p # EmptyPath /\ Filter(p, excludeFilters) \in {"File", "Source"}
AddsDirectory(p) ==
    p # EmptyPath /\ Filter(p, excludeFilters) = "Directory"

\* C1: in every reachable state the map has no empty-path key, whatever
\* scans and add and remove events (the empty path and paths without a
\* parent directory among them) came before.
C1_NoEmptyKey == EmptyPath \notin DOMAIN store

\* An add event for a path without a parent directory was handled while
\* the map held entries.
C1_Witness ==
    /\ last.op = "added"
    /\ last.branch = "noparent"
    /\ DOMAIN store # {}
    /\ EmptyPath \notin DOMAIN store

\* C2 as stated: whenever the lock is free, the watched paths are exactly
\* the keys of the map.
C2_WatchesEqualKeys == mMutex = "free" => watched = DOMAIN store

\* C2 amended: whenever the lock is free, every key that FileManager::watch
\* admits is watched; and only an add event for a directory makes a watched
\* path that is not a key.
C2_AdmittedKeysWatched ==
    /\ [](mMutex = "free" =>
            \A k \in DOMAIN store : watchAdmits(k, noWatch) => k \in watched)
    /\ [][\/ (watched' \ DOMAIN store') \subseteq (watched \ DOMAIN store)
           \/ \E p \in EventPaths : AddsDirectory(p) /\ FileAdded(p)]_vars

\* The lock is free and a directory reported added is watched without being
\* a key, next to keys that are.
C2_Witness ==
    /\ mMutex = "free"
    /\ err = "none"
    /\ last.branch = "directory"
    /\ watched \ DOMAIN store # {}
    /\ watched \cap DOMAIN store # {}

\* C3 as stated: a scan completion leaves the map equal to the grouping of
\* its result by parent directory and the watched paths equal to those
\* parent directories.
C3_MapAndWatchesAreGrouping ==
    [][DeliverApplied =>
        /\ store' = GroupByParent(Head(callQueue))
        /\ watched' = DOMAIN GroupByParent(Head(callQueue))]_vars

\* C3 amended: a scan completion leaves the map equal to the grouping of
\* its result by parent directory, whatever it held before, and the watched
\* paths equal to those parent directories that FileManager::watch admits.
C3_MapIsGrouping ==
    [][DeliverApplied =>
        /\ store' = GroupByParent(Head(callQueue))
        /\ watched' = {d \in DOMAIN GroupByParent(Head(callQueue)) :
                          watchAdmits(d, noWatch)}]_vars

\* A scan completion left two directories in the map, one of them not
\* watched.
C3_Witness ==
    /\ last.op = "finished"
    /\ Cardinality(DOMAIN store) >= 2
    /\ watched # {}
    /\ DOMAIN store \ watched # {}

\* C4: a reload applied right after a reload was applied, the files on disk
\* being the same, leaves the map as the first one left it.
C4_ReloadTwice ==
    [][(last.op \in {"reload", "finished"} /\ (DeliverApplied \/ ReloadApplied))
        => store' = store]_vars

\* Two scans were applied one after the other to a tree with files.
C4_Witness == last.again /\ DOMAIN store # {} /\ last.op = "reload"

\* C5: a remove event for a file whose parent is a key removes the key and
\* calls unwatch for the parent once when no other name is left in its set,
\* and keeps the key and calls no unwatch when other names are left.
C5_RemoveLastFile ==
    [][\A p \in EventPaths :
        (/\ last'.op = "removed"
         /\ projectAlive
         /\ p \notin DOMAIN store
         /\ parentDir(p) \in DOMAIN store
         /\ FileRemoved(p))
        => IF store[parentDir(p)] \ {fileName(p)} = {}
           THEN /\ parentDir(p) \notin DOMAIN store'
                /\ last'.unwatched = <<parentDir(p)>>
           ELSE /\ parentDir(p) \in DOMAIN store'
                /\ store'[parentDir(p)] = store[parentDir(p)] \ {fileName(p)}
                /\ last'.unwatched = << >>]_vars

\* The last file of a directory was removed while another directory stayed.
C5_Witness ==
    /\ last.op = "removed"
    /\ last.branch = "emptied"
    /\ Len(last.unwatched) = 1
    /\ last.unwatched[1] \notin DOMAIN store
    /\ DOMAIN store # {}

\* C6: an add event for a file without a parent directory puts no
\* empty-path key in the map and calls reload(Asynchronous) exactly once,
\* which starts one scan thread unless the tests option makes it
\* synchronous.
C6_NoParentReloads ==
    [][\A p \in EventPaths :
        (/\ last'.op = "added"
         /\ projectAlive
         /\ AddsFile(p)
         /\ parentDir(p) = EmptyPath
         /\ FileAdded(p))
        => /\ EmptyPath \notin DOMAIN store'
           /\ last'.reloads = 1
           /\ (~tests => threads' = threads + 1 /\ store' = store)]_vars

\* Such an event was handled and its scan thread is running.
C6_Witness ==
    /\ last.op = "added"
    /\ last.branch = "noparent"
    /\ last.reloads = 1
    /\ threads >= 1

\* C7 as stated: an add event for a directory always has a watch registered
\* on it and a reload scheduled, and inserts nothing itself.
C7_DirectoryAlwaysWatched ==
    [][\A p \in EventPaths :
        (/\ last'.op = "added"
         /\ projectAlive
         /\ AddsDirectory(p)
         /\ FileAdded(p))
        => /\ last'.watchReq = <<p>>
           /\ last'.reloads = 1
           /\ (~tests => store' = store)]_vars

\* C7 amended: an add event for a directory has a watch registered on it
\* when FileManager::watch admits the path and none otherwise, calls
\* reload(Asynchronous) exactly once, and inserts nothing itself.
C7_DirectoryWatchedIfAdmitted ==
    [][\A p \in EventPaths :
        (/\ last'.op = "added"
         /\ projectAlive
         /\ AddsDirectory(p)
         /\ FileAdded(p))
        => /\ last'.watchReq = IF watchAdmits(p, noWatch) THEN <<p>> ELSE << >>
           /\ last'.reloads = 1
           /\ (~tests => /\ store' = store
                         /\ threads' = threads + 1
                         /\ (watchAdmits(p, noWatch) => p \in watched'))]_vars

\* A directory was reported added and is watched, its scan thread running.
C7_Witness ==
    /\ last.op = "added"
    /\ last.branch = "directory"
    /\ last.watchReq # << >>
    /\ last.watchReq[1] \in watched
    /\ threads >= 1

\* C8: contains is true for the project root and for every path under it,
\* as given or with its symbolic links followed, and false for any other.
C8_ContainsUnderRoot ==
    (query # NoQuery /\ query.alive) =>
        query.value = (\/ strStartsWith(query.path, ProjectPath)
                       \/ strStartsWith(resolved(query.path), ProjectPath))

\* The directories that hold the ignore marker.
MarkerDirs == {d \in Directories : Normalize(d \o IgnoreMarker) \in files}

\* C9: no file under a directory that holds the ignore marker is in the
\* map, and no such directory is watched.
C9_IgnoredExcluded ==
    \A d \in MarkerDirs :
        /\ \A k \in DOMAIN store : ~strStartsWith(k, d \o <<"/">>)
        /\ \A w \in watched : Normalize(w) # d

\* C10: a scan result or an add or remove event handled after the project
\* is gone ends without an error and changes neither the map nor the
\* watched paths.
C10_StaleIsSilent ==
    [][(/\ ~projectAlive
        /\ \/ Deliver
           \/ \E p \in EventPaths : FileAdded(p)
           \/ \E p \in EventPaths : FileRemoved(p))
        => err' = "none" /\ store' = store /\ watched' = watched]_vars

\* C14: a scan thread changes neither the map nor the watched paths, and
\* the call it posts ends without an error, applying the scan's result when
\* the FileManager is still there and changing nothing when it is gone.
C14_AppliedOrDiscarded ==
    [][/\ ScanRun => store' = store /\ watched' = watched
       /\ Deliver =>
            /\ err' = "none"
            /\ Len(callQueue') = Len(callQueue) - 1
            /\ IF fmAlive
               THEN store' = GroupByParent(Head(callQueue))
               ELSE store' = store /\ watched' = watched]_vars

\* C15: a remove event for a path that is a key of the map calls
\* reload(Asynchronous) exactly once and itself removes no key, no file
\* name and no watch: the map and the watched paths are as before, or, in
\* test mode, as the rescan the reload ran at once left them.
C15_RemovedKeyReloads ==
    [][\A p \in EventPaths :
        (/\ last'.op = "removed"
         /\ projectAlive
         /\ p \in DOMAIN store
         /\ FileRemoved(p))
        => /\ last'.branch = "key"
           /\ last'.reloads = 1
           /\ last'.unwatched = << >>
           /\ (~tests => /\ store' = store
                         /\ watched' = watched
                         /\ threads' = threads + 1)
           /\ (tests => \/ store' = store /\ watched' = watched
                        \/ store' = GroupByParent(
                              paths(files, ProjectPath, excludeFilters)))]_vars

\* A tracked directory was reported removed: it is still a key and a scan
\* thread is running.
C15_Witness ==
    /\ last.op = "removed"
    /\ last.branch = "key"
    /\ last.reloads = 1
    /\ ~tests
    /\ threads >= 1
    /\ ProjectPath \in DOMAIN store

\* C16: a remove event for a path that is no key of the map and whose
\* parent directory is no key either changes neither the map nor the
\* watched paths, calls no reload and unwatches nothing.
C16_RemovedUntracked ==
    [][\A p \in EventPaths :
        (/\ last'.op = "removed"
         /\ projectAlive
         /\ p \notin DOMAIN store
         /\ parentDir(p) \notin DOMAIN store
         /\ FileRemoved(p))
        => /\ store' = store
           /\ watched' = watched
           /\ threads' = threads
           /\ callQueue' = callQueue
           /\ err' = "none"
           /\ last'.reloads = 0
           /\ last'.unwatched = << >>]_vars

\* An untracked path was reported removed while files are tracked.
C16_Witness ==
    /\ last.op = "removed"
    /\ last.branch = "untracked"
    /\ projectAlive
    /\ err = "none"
    /\ store # EmptyMap
    /\ watched # {}

\* C17: no watched path contains /.git/, /.svn/ or /.cvs/, and nothing is
\* watched when watching is disabled.
C17_NoVcsWatch ==
    /\ \A w \in watched :
          /\ ~strContains(w, <<"/", ".git", "/">>)
          /\ ~strContains(w, <<"/", ".svn", "/">>)
          /\ ~strContains(w, <<"/", ".cvs", "/">>)
    /\ noWatch => watched = {}

\* A directory under .git is a key of the map and is not watched, while
\* another directory is.
C17_Witness ==
    /\ \E k \in DOMAIN store :
          strContains(k, <<"/", ".git", "/">>) /\ k \notin watched
    /\ watched # {}

\* C18: an add or remove event that called reload has returned and left
\* the mutex free, in test mode too.
C18_HandlerReleasesLock ==
    (last.op \in {"added", "removed"} /\ last.reloads > 0) => mMutex = "free"

\* C20: whenever the mutex is free every key of the map has a file name.
C20_KeysNonEmpty ==
    mMutex = "free" => \A k \in DOMAIN store : store[k] # {}

\* A remove event took one file name from a directory that keeps others.
C20_Witness ==
    /\ mMutex = "free"
    /\ last.op = "removed"
    /\ last.branch = "member"
    /\ \E k \in DOMAIN store : store[k] # {}

\* Nothing is pending: no change waits in the watcher, no scan is running
\* and no scan result waits in the event loop.
Quiescent == events = << >> /\ threads = 0 /\ callQueue = << >>

\* C11: whenever no watcher event and no scan is pending, the map is the
\* grouping by parent directory of the files a scan of the tree finds now.
C11_QuiescentIsSynced ==
    Quiescent =>
        store = GroupByParent(paths(files, ProjectPath, excludeFilters))

\* C19: a scan result that is applied comes from a scan started after the
\* scan whose result was applied before it.
C19_AppliedInStartOrder ==
    [][SyncDeliver => order'.applied > order.applied]_vars

\* C13: the paths a scan thread posts are those that a scan of the tree
\* with the exclude filters as they were when the thread began finds.
C13_FiltersAsAtStart ==
    [][WalkPost => walk.found = paths(files, ProjectPath, walk.begun)]_vars

\* The operations that are past their lock and have not returned: a thread
\* that runs onRecurseJobFinished inside a handler has two.
InCriticalSection ==
    LET n(t) == CASE pc[t] = "idle" -> 0
                  [] pc[t] = "nested" -> 2
                  [] OTHER -> 1
    IN  n("home") + n("watcher") + n("client")

\* C12: at most one of the application of a scan result, the application
\* of a watcher event and a contains query is inside its critical section.
C12_MutualExclusion == InCriticalSection <= 1

====
